---- MODULE Spec2Model ----
(***************************************************************************)
(* A model of the wzsh command-language parser (src/src/parse.rs), of      *)
(* SimpleCommand::expand_argv and of the interactive loop with its job     *)
(* control set-up (src/src/repl.rs).                                       *)
(*                                                                         *)
(* The parser is a recursive-descent engine with a one-token lookahead     *)
(* slot.  Every grammar function of the source is an operator here that    *)
(* takes the parser state (lexer position + lookahead slot) and returns    *)
(* the new parser state together with a Fallible value.  parse() itself is *)
(* run as a state machine: one step for its first and_or, one step for     *)
(* each iteration of its `while let` loop.                                 *)
(***************************************************************************)
EXTENDS Integers, Sequences, FiniteSets, Bags, TLC

VARIABLES
    source,     \* the token stream the lexer was constructed over
    parser,     \* Parser { lexer, lookahead } (+ whether an assert! failed)
    commands,   \* the local `commands` vector of parse()
    pc,         \* position inside parse(): "first", "loop", "done"
    result,     \* what parse() returned (Fallible<CompoundList>)
    \* repl(): the interactive loop
    rpc,        \* position inside repl()
    input,      \* the `input` buffer (a sequence of lexemes, "NL" for '\n')
    env_bits,   \* EnvBits { cwd, env }
    process_cwd, \* the process-wide current directory
    prompt,     \* the prompt of the current iteration
    reports,    \* what print_error wrote since the last prompt
    machine,    \* the Machine of the last compile_and_run
    repl_result, \* what repl() returned
    job_polls,  \* JOB_LIST.check_and_print_status() calls of this iteration
    \* job control
    tty_pgrp,   \* the terminal's foreground process group
    shell_pgrp, \* the shell's process group
    disposition, \* the disposition of each signal in the shell process
    sig_i,      \* index into the signal list of init_job_control
    \* observations
    init_log,   \* the job control steps done so far, in order
    entry,      \* the lines read since the last complete or abandoned entry
    last,       \* how the previous loop iteration ended
    \* SimpleCommand::expand_argv
    xpc,        \* position inside expand_argv: "idle", "loop", "done"
    xcmd,       \* the SimpleCommand (self)
    expander,   \* the Expander: word text -> fields
    aliases,    \* the alias table: word text -> replacement text
    xi,         \* index of the next word of the `for` loop
    argv,       \* the `argv` vector
    ruled,      \* indices of the words apply_command_word_rules was called on
    \* filedescriptor (windows): OwnedHandle
    opened,     \* the OS objects behind the handles the process was given, by handle
    owned,      \* the live OwnedHandle values
    closes,     \* the closesocket / CloseHandle calls made so far, in order
    raw,        \* raw handles in the hands of callers (into_raw_handle)
    hlast       \* the last OwnedHandle operation and its handle

parseVars == <<source, parser, commands, pc, result>>
replVars == <<rpc, input, env_bits, process_cwd, prompt, reports, machine, repl_result, job_polls,
              tty_pgrp, shell_pgrp, disposition, sig_i, init_log, entry, last>>
expandVars == <<xpc, xcmd, expander, aliases, xi, argv, ruled>>
handleVars == <<opened, owned, closes, raw, hlast>>
vars == <<parseVars, replVars, expandVars, handleVars>>

----------------------------------------------------------------------------
(* Bounds of the model *)

\* longest token stream (not counting the end-of-stream token)
MaxLen == 4

----------------------------------------------------------------------------
(* Tokens.  A lexeme is what the lexer sees; the lexer turns the i-th      *)
(* lexeme into a Token carrying its kind and its start position.           *)

PlainWords == {"a", "b"}
AssignWords == {"x=1"}
WordLexemes == PlainWords \cup AssignWords
OperatorLexemes == {"|", "&", ";", "&&", "||"}
Lexemes == WordLexemes \cup OperatorLexemes \cup {"!", "NL", "ERR"}

Word(s) == [tag |-> "Word", arg |-> s]
ReservedWord(w) == [tag |-> "ReservedWord", arg |-> w]
Operator(o) == [tag |-> "Operator", arg |-> o]
NewLine == [tag |-> "NewLine", arg |-> ""]
Eof == [tag |-> "Eof", arg |-> ""]

Bang == "Bang"
Pipe == "Pipe"
Ampersand == "Ampersand"
Semicolon == "Semicolon"
AndIf == "AndIf"
OrIf == "OrIf"

OperatorOf(l) ==
    CASE l = "|" -> Pipe
      [] l = "&" -> Ampersand
      [] l = ";" -> Semicolon
      [] l = "&&" -> AndIf
      [] l = "||" -> OrIf

\* the TokenKind the lexer gives a lexeme
KindOf(l) ==
    IF l \in WordLexemes THEN Word(l)
    ELSE IF l \in OperatorLexemes THEN Operator(OperatorOf(l))
    ELSE IF l = "!" THEN ReservedWord(Bang)
    ELSE NewLine

Token(kind, start) == [kind |-> kind, start |-> start]

\* Lexemes that open a construct the lexer must see the end of: backslash,
\* comment, single and double quote, assignment word, command substitution,
\* parameter expansion.  The construct runs to the next occurrence of the
\* same lexeme; the lexer names the construct when the input ends inside it.
Openers == {"\\", "#", "'", "dq", "v=", "$(", "${"}
EofDuring(o) ==
    CASE o = "\\" -> "EofDuringBackslash"
      [] o = "#" -> "EofDuringComment"
      [] o = "'" -> "EofDuringSingleQuotedString"
      [] o = "dq" -> "EofDuringDoubleQuotedString"
      [] o = "v=" -> "EofDuringAssignmentWord"
      [] o = "$(" -> "EofDuringCommandSubstitution"
      [] o = "${" -> "EofDuringParameterExpansion"

\* Option<T>
None == <<>>
Some(x) == <<x>>
IsSome(o) == o # <<>>
Unwrap(o) == o[1]

----------------------------------------------------------------------------
(* Fallible values threaded through the parser state *)

NoErr == [kind |-> "None", msg |-> "", start |-> 0]
Message(m) == [kind |-> "Message", msg |-> m, start |-> 0]
UnexpectedToken(start) == [kind |-> "ParseErrorKind", msg |-> "Unexpected token", start |-> start]
\* LexError { kind }
LexErrorOf(kind) == [kind |-> "LexError", msg |-> kind, start |-> 0]
LexError == LexErrorOf("IoError")
Panic == [kind |-> "Panic", msg |-> "assertion failed: self.lookahead.is_none()", start |-> 0]

Ok(p, v) == [p |-> p, err |-> NoErr, val |-> v]
Err(p, e) == [p |-> p, err |-> e, val |-> None]
IsOk(r) == r.err = NoErr

\* the `?` operator: the rest of the function runs on the value of an Ok,
\* an Err is returned as it is (the call `r` is made once)
Try(r, K(_)) == CHOOSE out \in {IF IsOk(t) THEN K(t) ELSE t : t \in {r}} : TRUE

----------------------------------------------------------------------------
(* Lexer and lookahead slot *)

\* Parser::new
NewParser == [lexer |-> 1, lookahead |-> None, panicked |-> FALSE]

\* Lexer::next: the next token of the stream; end-of-stream is reported
\* again on every further read; a lexeme the lexer cannot scan is an error
LexerNext(p) ==
    IF p.lexer > Len(source) THEN Ok(p, Token(Eof, Len(source) + 1))
    ELSE IF source[p.lexer] = "ERR" THEN Err(p, LexError)
    ELSE IF source[p.lexer] \in Openers
    THEN IF \E j \in (p.lexer + 1)..Len(source) : source[j] = source[p.lexer]
         THEN Ok([p EXCEPT !.lexer = 1 + CHOOSE j \in (p.lexer + 1)..Len(source) :
                                            /\ source[j] = source[p.lexer]
                                            /\ \A k \in (p.lexer + 1)..(j - 1) : source[k] # source[p.lexer]],
                 Token(Word(source[p.lexer]), p.lexer))
         ELSE Err(p, LexErrorOf(EofDuring(source[p.lexer])))
    ELSE Ok([p EXCEPT !.lexer = @ + 1], Token(KindOf(source[p.lexer]), p.lexer))

next_token(p) ==
    IF IsSome(p.lookahead)
    THEN Ok([p EXCEPT !.lookahead = None], Unwrap(p.lookahead))
    ELSE LexerNext(p)

\* the assert! of unget_token unwinds the parser when the slot is taken
unget_token(p, tok) ==
    IF IsSome(p.lookahead)
    THEN Err([p EXCEPT !.panicked = TRUE], Panic)
    ELSE Ok([p EXCEPT !.lookahead = Some(tok)], TRUE)

is_reserved_word(t, word) == t.kind = ReservedWord(word)

parse_assignment_word(kind) ==
    IF kind.tag = "Word" /\ kind.arg \in AssignWords THEN Some(kind.arg) ELSE None

\* a mutant of next_token_is_reserved_word: the token is looked at in the
\* slot without being taken out of it
next_token_is_reserved_word_peek(p, word) ==
    Try(IF IsSome(p.lookahead) THEN Ok(p, Unwrap(p.lookahead)) ELSE LexerNext(p), LAMBDA t :
        IF is_reserved_word(t.val, word) THEN Ok(t.p, TRUE)
        ELSE Try(unget_token(t.p, t.val), LAMBDA u : Ok(u.p, FALSE)))

next_token_is_reserved_word(p, word) ==
    Try(next_token(p), LAMBDA t :
        IF is_reserved_word(t.val, word) THEN Ok(t.p, TRUE)
        ELSE Try(unget_token(t.p, t.val), LAMBDA u : Ok(u.p, FALSE)))

next_token_is(p, kind) ==
    Try(next_token(p), LAMBDA t :
        IF kind = t.val.kind THEN Ok(t.p, TRUE)
        ELSE Try(unget_token(t.p, t.val), LAMBDA u : Ok(u.p, FALSE)))

----------------------------------------------------------------------------
(* Separators *)

Sync == "Sync"
Async == "Async"

separator_op(p) ==
    Try(next_token(p), LAMBDA t :
        IF t.val.kind = Operator(Semicolon) THEN Ok(t.p, Some(Sync))
        ELSE IF t.val.kind = Operator(Ampersand) THEN Ok(t.p, Some(Async))
        ELSE Try(unget_token(t.p, t.val), LAMBDA u : Ok(u.p, None)))

RECURSIVE newline_list_loop(_, _)
newline_list_loop(p, saw_newline) ==
    Try(next_token_is(p, NewLine), LAMBDA n :
        IF n.val THEN newline_list_loop(n.p, TRUE)
        ELSE IF saw_newline THEN Ok(n.p, Some(TRUE))
        ELSE Ok(n.p, None))

newline_list(p) == newline_list_loop(p, FALSE)

linebreak(p) == Try(newline_list(p), LAMBDA n : Ok(n.p, Some(TRUE)))

separator(p) ==
    Try(separator_op(p), LAMBDA s :
        IF IsSome(s.val)
        THEN Try(linebreak(s.p), LAMBDA l : Ok(l.p, s.val))
        ELSE Try(newline_list(s.p), LAMBDA n :
                 IF IsSome(n.val) THEN Ok(n.p, Some(Sync)) ELSE Ok(n.p, None)))

separator_is_async(p) ==
    Try(separator(p), LAMBDA s :
        Ok(s.p, (IF IsSome(s.val) THEN Unwrap(s.val) ELSE Sync) = Async))

----------------------------------------------------------------------------
(* The command tree *)

SimpleCommand(assignments, words, asynchronous) ==
    [assignments |-> assignments, file_redirects |-> <<>>, fd_dups |-> <<>>,
     words |-> words, asynchronous |-> asynchronous]

\* impl From<CommandType> for Command
CommandFromType(type, node) ==
    [asynchronous |-> FALSE, command |-> [type |-> type, node |-> node],
     redirects |-> None]

Pipeline(inverted, cmds) == [inverted |-> inverted, commands |-> cmds]

\* a mutant of CommandFromPipeline: the pipeline is never simplified
CommandFromPipeline_wrapped(pl) == CommandFromType("Pipeline", pl)

\* impl From<Pipeline> for Command: a single non-inverted stage is the
\* command itself
CommandFromPipeline(pl) ==
    IF ~pl.inverted /\ Len(pl.commands) = 1
    THEN pl.commands[1]
    ELSE CommandFromType("Pipeline", pl)

\* impl From<Command> for CompoundList
CompoundListFrom(cmd) == [commands |-> <<cmd>>]

If(condition, true_part, false_part) ==
    [condition |-> condition, true_part |-> true_part, false_part |-> false_part]

----------------------------------------------------------------------------
(* Grammar functions *)

\* a mutant of PushWord: a word is put in front of the words collected so far
PushWord_front(acc, token) ==
    IF acc.words = <<>> /\ IsSome(parse_assignment_word(token.kind))
    THEN [acc EXCEPT !.assignments = Append(@, token)]
    ELSE [acc EXCEPT !.words = <<token>> \o @]

\* a mutant of PushWord: assignment words are recognised after the command
\* word too
PushWord_any(acc, token) ==
    IF IsSome(parse_assignment_word(token.kind))
    THEN [acc EXCEPT !.assignments = Append(@, token)]
    ELSE [acc EXCEPT !.words = Append(@, token)]

\* the classification of one Word token inside simple_command's loop
PushWord(acc, token) ==
    IF acc.words = <<>> /\ IsSome(parse_assignment_word(token.kind))
    THEN [acc EXCEPT !.assignments = Append(@, token)]
    ELSE [acc EXCEPT !.words = Append(@, token)]

\* the tail of simple_command, after its loop
simple_command_end(p, acc) ==
    IF acc.assignments = <<>> /\ acc.words = <<>> THEN Ok(p, None)
    ELSE Ok(p, Some(SimpleCommand(acc.assignments, acc.words, acc.asynchronous)))

RECURSIVE simple_command_loop(_, _)
\* a mutant of simple_command_loop: a token of another kind is kept as a word
simple_command_loop_any(p, acc) ==
    Try(next_token(p), LAMBDA t :
        IF t.val.kind = Eof THEN simple_command_end(t.p, acc)
        ELSE IF t.val.kind = Operator(Ampersand)
        THEN simple_command_end(t.p, [acc EXCEPT !.asynchronous = TRUE])
        ELSE IF t.val.kind \in {Operator(Semicolon), NewLine, Operator(AndIf), Operator(OrIf)}
        THEN Try(unget_token(t.p, t.val), LAMBDA u : simple_command_end(u.p, acc))
        ELSE IF t.val.kind.tag = "Word"
        THEN simple_command_loop(t.p, PushWord(acc, t.val))
        ELSE simple_command_loop(t.p, [acc EXCEPT !.words = Append(@, t.val)]))

\* the loop of simple_command
simple_command_loop(p, acc) ==
    Try(next_token(p), LAMBDA t :
        IF t.val.kind = Eof THEN simple_command_end(t.p, acc)
        ELSE IF t.val.kind = Operator(Ampersand)
        THEN simple_command_end(t.p, [acc EXCEPT !.asynchronous = TRUE])
        ELSE IF t.val.kind \in {Operator(Semicolon), NewLine, Operator(AndIf), Operator(OrIf)}
        THEN Try(unget_token(t.p, t.val), LAMBDA u : simple_command_end(u.p, acc))
        ELSE IF t.val.kind.tag = "Word"
        THEN simple_command_loop(t.p, PushWord(acc, t.val))
        ELSE Err(t.p, UnexpectedToken(t.val.start)))

simple_command(p) ==
    simple_command_loop(p, [assignments |-> <<>>, words |-> <<>>, asynchronous |-> FALSE])

command(p) ==
    Try(simple_command(p), LAMBDA s :
        IF IsSome(s.val)
        THEN Ok(s.p, Some(CommandFromType("SimpleCommand", Unwrap(s.val))))
        ELSE Ok(s.p, None))

RECURSIVE pipe_sequence_loop(_, _)
pipe_sequence_loop(p, cmds) ==
    Try(next_token_is(p, Operator(Pipe)), LAMBDA n :
        IF ~n.val THEN Ok(n.p, Some(cmds))
        ELSE Try(linebreak(n.p), LAMBDA l :
             Try(command(l.p), LAMBDA c :
                 IF IsSome(c.val)
                 THEN pipe_sequence_loop(c.p, Append(cmds, Unwrap(c.val)))
                 ELSE Err(c.p, Message("expected command to follow |")))))

pipe_sequence(p) ==
    Try(command(p), LAMBDA c :
        IF ~IsSome(c.val) THEN Ok(c.p, None)
        ELSE pipe_sequence_loop(c.p, <<Unwrap(c.val)>>))

pipeline(p) ==
    Try(next_token_is_reserved_word(p, Bang), LAMBDA i :
    Try(pipe_sequence(i.p), LAMBDA s :
        IF IsSome(s.val) THEN Ok(s.p, Some(Pipeline(i.val, Unwrap(s.val))))
        ELSE IF i.val THEN Err(s.p, Message("expected command to follow !"))
        ELSE Ok(s.p, None)))

\* a mutant of Conditional: the branches are swapped
Conditional_swapped(condition, then, op) ==
    IF op = AndIf
    THEN CommandFromType("If", If(condition, None, Some(then)))
    ELSE CommandFromType("If", If(condition, Some(then), None))

\* the If node of `condition && then` (true_part) or `condition || then`
\* (false_part)
Conditional(condition, then, op) ==
    IF op = AndIf
    THEN CommandFromType("If", If(condition, Some(then), None))
    ELSE CommandFromType("If", If(condition, None, Some(then)))

pipeline_conditional(p, condition, op) ==
    Try(linebreak(p), LAMBDA l :
    Try(pipeline(l.p), LAMBDA t :
        IF ~IsSome(t.val) THEN Err(t.p, Message("missing pipeline after " \o op))
        ELSE Ok(t.p, Some(Conditional(
                 CompoundListFrom(CommandFromPipeline(condition)),
                 CompoundListFrom(CommandFromPipeline(Unwrap(t.val))), op)))))

\* and_or, once its first pipeline is there: the operator that follows it
and_or_op(p, pl) ==
    Try(next_token_is(p, Operator(AndIf)), LAMBDA a :
        IF a.val THEN pipeline_conditional(a.p, pl, AndIf)
        ELSE Try(next_token_is(a.p, Operator(OrIf)), LAMBDA o :
                 IF o.val THEN pipeline_conditional(o.p, pl, OrIf)
                 ELSE Ok(o.p, Some(CommandFromPipeline(pl)))))

and_or(p) ==
    Try(pipeline(p), LAMBDA pl :
        IF IsSome(pl.val) THEN and_or_op(pl.p, Unwrap(pl.val)) ELSE Ok(pl.p, None))

----------------------------------------------------------------------------
(* parse() as a state machine *)

NotReturned == [status |-> "none", commands |-> <<>>, error |-> NoErr]
ReturnOk(cmds) == [status |-> "Ok", commands |-> cmds, error |-> NoErr]
ReturnErr(e) == [status |-> "Err", commands |-> <<>>, error |-> e]

\* every token stream of at most n lexemes
Streams(n) == UNION {[1..k -> Lexemes] : k \in 0..n}

\* how a loop iteration ended: what readline gave, the error of
\* compile_and_run, and whether put_shell_in_foreground was called
Ended(event, error, foreground) == [event |-> event, error |-> error, foreground |-> foreground]

\* a parser on its own: repl() is not running
ReplIdle ==
    /\ rpc = "idle"
    /\ input = <<>>
    /\ env_bits = [cwd |-> "/", env |-> "new"]
    /\ process_cwd = "/"
    /\ prompt = ""
    /\ reports = <<>>
    /\ machine = <<>>
    /\ repl_result = "none"
    /\ job_polls = 0
    /\ tty_pgrp = "parent"
    /\ shell_pgrp = "parent"
    /\ disposition = [s \in {"SIGINT", "SIGQUIT", "SIGTSTP", "SIGTTIN", "SIGTTOU", "SIGCHLD", "SIGTERM"} |-> "default"]
    /\ sig_i = 1
    /\ init_log = <<>>
    /\ entry = <<>>
    /\ last = Ended("none", NoErr, FALSE)

\* no expand_argv call is running
ExpandIdle ==
    /\ xpc = "idle"
    /\ xcmd = SimpleCommand(<<>>, <<>>, FALSE)
    /\ expander = <<>>
    /\ aliases = <<>>
    /\ xi = 1
    /\ argv = <<>>
    /\ ruled = {}

\* HANDLE values that name no object
NULL == 0
INVALID_HANDLE_VALUE == -1

\* no OwnedHandle exists and no handle was opened
HandleIdle ==
    /\ opened = <<>>
    /\ owned = EmptyBag
    /\ closes = EmptyBag
    /\ raw = {}
    /\ hlast = [op |-> "none", handle |-> NULL]

Init ==
    /\ source \in Streams(MaxLen)
    /\ parser = NewParser
    /\ commands = <<>>
    /\ pc = "first"
    /\ result = NotReturned
    /\ ReplIdle
    /\ ExpandIdle
    /\ HandleIdle

\* a mutant of Push: the command is inserted at the front of the vector
Push_front(cmds, cmd, asynchronous) == <<[cmd EXCEPT !.asynchronous = asynchronous]>> \o cmds

\* commands.push(cmd) after `cmd.asynchronous = self.separator_is_async()?`
Push(cmds, cmd, asynchronous) == Append(cmds, [cmd EXCEPT !.asynchronous = asynchronous])

\* a mutant of Return: the loop of parse() is not left
Return_spin(p, r) ==
    /\ parser' = p
    /\ commands' = commands
    /\ pc' = pc
    /\ result' = result

\* parse() returns `r` (the `commands` vector is moved into it or dropped)
Return(p, r) ==
    /\ parser' = p
    /\ commands' = <<>>
    /\ pc' = "done"
    /\ result' = r

\* the step of parse() once and_or and, after a command, separator_is_async
\* have run: `r` is an Err, Ok(None) (no command) or Ok(Some(<<cmd, async>>))
Step(r, NoCommand(_)) ==
    IF ~IsOk(r) THEN Return(r.p, ReturnErr(r.err))
    ELSE IF ~IsSome(r.val) THEN NoCommand(r.p)
    ELSE /\ parser' = r.p
         /\ commands' = Push(commands, Unwrap(r.val)[1], Unwrap(r.val)[2])
         /\ pc' = "loop"
         /\ result' = result

\* `self.and_or()?` and, when it gave a command, `self.separator_is_async()?`
CommandAndSeparator(p) ==
    Try(and_or(p), LAMBDA a :
        IF ~IsSome(a.val) THEN Ok(a.p, None)
        ELSE Try(separator_is_async(a.p), LAMBDA s :
                 Ok(s.p, Some(<<Unwrap(a.val), s.val>>))))

\* a mutant of NoFirstCommand: end-of-stream is not looked for
NoFirstCommand_bail(p) == Ok(p, ReturnErr(Message("expected and_or")))

\* parse() when its first and_or is None
NoFirstCommand(p) ==
    Try(next_token_is(p, Eof), LAMBDA e :
        IF e.val THEN Ok(e.p, ReturnOk(<<>>))
        ELSE Ok(e.p, ReturnErr(Message("expected and_or"))))

ReturnFirst(r) == Return(r.p, IF IsOk(r) THEN r.val ELSE ReturnErr(r.err))

\* parse(), up to the first push
ParseFirst ==
    /\ pc = "first"
    /\ Step(CommandAndSeparator(parser), LAMBDA p : ReturnFirst(NoFirstCommand(p)))
    /\ UNCHANGED <<source, replVars, expandVars, handleVars>>

\* one iteration of `while let Some(mut cmd) = self.and_or()?`
ParseLoop ==
    /\ pc = "loop"
    /\ Step(CommandAndSeparator(parser), LAMBDA p : Return(p, ReturnOk(commands)))
    /\ UNCHANGED <<source, replVars, expandVars, handleVars>>

Next == ParseFirst \/ ParseLoop

Spec == Init /\ [][Next]_vars

\* bound: the longest stream of the runs that are followed to their end
MaxFairLen == 3

\* a parser that has not been given its input yet
InitFair ==
    /\ source = <<>>
    /\ parser = NewParser
    /\ commands = <<>>
    /\ pc = "new"
    /\ result = NotReturned
    /\ ReplIdle
    /\ ExpandIdle
    /\ HandleIdle

\* Parser::new(stream): the parser is made for a stream and parse() is called
NewStream ==
    /\ pc = "new"
    /\ source' \in Streams(MaxFairLen)
    /\ pc' = "first"
    /\ UNCHANGED <<parser, commands, result, replVars, expandVars, handleVars>>

NextFair == NewStream \/ ParseFirst \/ ParseLoop

\* parse() runs on the one thread of the shell: a step that can be taken is taken
SpecFair == InitFair /\ [][NextFair]_vars /\ WF_vars(NextFair)

----------------------------------------------------------------------------
(* What the claims speak about: the input and the returned tree *)

Done == pc = "done"
ReturnedOk == result.status = "Ok"

IsWordAt(i) == i \in 1..Len(source) /\ source[i] \in WordLexemes

\* the token the lexer makes of the i-th lexeme, when that is a word
WordToken(i) == [kind |-> [tag |-> "Word", arg |-> source[i]], start |-> i]
WordTokens(lo, hi) == [k \in 1..(hi + 1 - lo) |-> WordToken(lo + k - 1)]

\* the maximal runs of word lexemes of the input, each a simple command
RunStarts == {i \in 1..Len(source) : IsWordAt(i) /\ ~IsWordAt(i - 1)}
RunEnd(lo) == CHOOSE hi \in lo..Len(source) :
                  (\A k \in lo..hi : IsWordAt(k)) /\ ~IsWordAt(hi + 1)
NthRun(n) == CHOOSE lo \in RunStarts : Cardinality({j \in RunStarts : j <= lo}) = n

\* the first lexeme of lo..hi that is not assignment-shaped (hi + 1: none)
FirstPlain(lo, hi) ==
    IF \E k \in lo..hi : source[k] \notin AssignWords
    THEN CHOOSE k \in lo..hi : /\ source[k] \notin AssignWords
                               /\ \A j \in lo..(k - 1) : source[j] \in AssignWords
    ELSE hi + 1

\* the simple command the word run lo..hi stands for
ExpectedSimple(lo, hi) ==
    [assignments |-> WordTokens(lo, FirstPlain(lo, hi) - 1),
     file_redirects |-> <<>>, fd_dups |-> <<>>,
     words |-> WordTokens(FirstPlain(lo, hi), hi),
     asynchronous |-> FALSE]
ExpectedCommand(lo, hi) ==
    [asynchronous |-> FALSE,
     command |-> [type |-> "SimpleCommand", node |-> ExpectedSimple(lo, hi)],
     redirects |-> <<>>]
ExpectedRun(n) == ExpectedCommand(NthRun(n), RunEnd(NthRun(n)))

\* the command lists directly below a command
SubLists(cmd) ==
    IF cmd.command.type = "Pipeline" THEN {cmd.command.node.commands}
    ELSE IF cmd.command.type = "If"
    THEN {cmd.command.node.condition.commands}
         \cup {l.commands : l \in {cmd.command.node.true_part[i] : i \in DOMAIN cmd.command.node.true_part}}
         \cup {l.commands : l \in {cmd.command.node.false_part[i] : i \in DOMAIN cmd.command.node.false_part}}
    ELSE {}

\* every Command of a tree, at any depth
RECURSIVE CommandsIn(_)
CommandsIn(cmds) ==
    UNION {{cmds[i]} \cup UNION {CommandsIn(l) : l \in SubLists(cmds[i])} : i \in DOMAIN cmds}

ReturnedCommands == CommandsIn(result.commands)
ReturnedSimple == {c.command.node : c \in {d \in ReturnedCommands : d.command.type = "SimpleCommand"}}

----------------------------------------------------------------------------
(* C1 *)

OnlyPlainWords == Len(source) >= 1 /\ \A i \in 1..Len(source) : source[i] \in PlainWords

\* C1: a token stream that is one simple command of plain words w1..wn
\* (n >= 1) followed by end-of-stream parses to a list of exactly one
\* Command, a SimpleCommand whose words are w1..wn in input order, with empty
\* assignments, file_redirects and fd_dups and asynchronous = false.
C1_SinglePlainCommand ==
    (Done /\ OnlyPlainWords) =>
        result = [status |-> "Ok",
                  commands |-> <<[asynchronous |-> FALSE,
                                  command |-> [type |-> "SimpleCommand",
                                               node |-> [assignments |-> <<>>,
                                                         file_redirects |-> <<>>,
                                                         fd_dups |-> <<>>,
                                                         words |-> WordTokens(1, Len(source)),
                                                         asynchronous |-> FALSE]],
                                  redirects |-> <<>>]>>,
                  error |-> NoErr]

C1_Witness == Done /\ OnlyPlainWords /\ Len(source) >= 3 /\ source[1] # source[2] /\ ReturnedOk

----------------------------------------------------------------------------
(* C2 *)

\* simple commands separated by one `;` or by a run of newlines
SeparatedList ==
    /\ IsWordAt(1) /\ IsWordAt(Len(source))
    /\ \A i \in 1..Len(source) : source[i] \in WordLexemes \cup {";", "NL"}
    /\ \A i \in 1..Len(source) : source[i] = ";" => IsWordAt(i - 1) /\ IsWordAt(i + 1)

\* C2: an input of simple commands c1..cn separated by `;` or by runs of
\* newlines parses to a list of exactly n commands, in source order, the i-th
\* having exactly the words of ci (nothing reordered, merged or dropped).
C2_SeparatedCommands ==
    (Done /\ SeparatedList) =>
        /\ ReturnedOk
        /\ Len(result.commands) = Cardinality(RunStarts)
        /\ \A n \in 1..Cardinality(RunStarts) : result.commands[n] = ExpectedRun(n)

C2_Witness ==
    /\ Done /\ SeparatedList /\ ReturnedOk
    /\ Cardinality(RunStarts) = 2
    /\ \E i \in 1..Len(source) : source[i] = "NL"
    /\ result.commands[1].command.node.words # result.commands[2].command.node.words

----------------------------------------------------------------------------
(* C3 *)

\* cmd1 <op> cmd2 for two simple commands and one operator lexeme
TwoCommandsJoinedBy(op) ==
    /\ Cardinality(RunStarts) = 2
    /\ IsWordAt(1) /\ IsWordAt(Len(source))
    /\ \A i \in 1..Len(source) : IsWordAt(i) \/ source[i] = op
    /\ Cardinality({i \in 1..Len(source) : source[i] = op}) = 1

ExpectedIf(true_part, false_part) ==
    [asynchronous |-> FALSE,
     command |-> [type |-> "If",
                  node |-> [condition |-> [commands |-> <<ExpectedRun(1)>>],
                            true_part |-> true_part,
                            false_part |-> false_part]],
     redirects |-> <<>>]

\* C3: `cmd1 && cmd2` parses to one If node with condition [cmd1],
\* true_part [cmd2] and no false_part; `cmd1 || cmd2` to the same shape with
\* false_part [cmd2] and no true_part; no If node of a returned tree has both
\* branches populated.
C3_Conditional ==
    /\ (Done /\ TwoCommandsJoinedBy("&&")) =>
           result = [status |-> "Ok",
                     commands |-> <<ExpectedIf(<<[commands |-> <<ExpectedRun(2)>>]>>, <<>>)>>,
                     error |-> NoErr]
    /\ (Done /\ TwoCommandsJoinedBy("||")) =>
           result = [status |-> "Ok",
                     commands |-> <<ExpectedIf(<<>>, <<[commands |-> <<ExpectedRun(2)>>]>>)>>,
                     error |-> NoErr]
    /\ \A c \in ReturnedCommands :
           c.command.type = "If" =>
               ~(c.command.node.true_part # <<>> /\ c.command.node.false_part # <<>>)

C3_Witness ==
    /\ Done /\ TwoCommandsJoinedBy("||") /\ ReturnedOk
    /\ Len(source) = 4
    /\ result.commands[1].command.node.false_part # <<>>

----------------------------------------------------------------------------
(* C4 *)

\* the first lexeme after an optional leading `!`
PipelineFrom == IF Len(source) >= 1 /\ source[1] = "!" THEN 2 ELSE 1

\* [!] c1 | c2 | ... | cn for simple commands c1..cn, n >= 2
PipelineInput ==
    /\ Cardinality(RunStarts) >= 2
    /\ IsWordAt(PipelineFrom) /\ IsWordAt(Len(source))
    /\ \A i \in PipelineFrom..Len(source) : IsWordAt(i) \/ source[i] = "|"
    /\ \A i \in PipelineFrom..Len(source) : source[i] = "|" => IsWordAt(i - 1) /\ IsWordAt(i + 1)

\* C4: simple commands c1..cn (n >= 2) joined by `|` parse to one Command
\* of type Pipeline whose commands are c1..cn in input order, inverted
\* exactly when the input began with `!`.
C4_PipelineStages ==
    (Done /\ PipelineInput) =>
        /\ ReturnedOk
        /\ Len(result.commands) = 1
        /\ result.commands[1].command.type = "Pipeline"
        /\ result.commands[1].command.node.inverted = (source[1] = "!")
        /\ result.commands[1].command.node.commands
               = [n \in 1..Cardinality(RunStarts) |-> ExpectedRun(n)]

----------------------------------------------------------------------------
(* C5 *)

\* simple commands each ended by exactly one of `;`, `&`, newline or
\* end-of-stream
TerminatedList ==
    /\ IsWordAt(1)
    /\ \A i \in 1..Len(source) : source[i] \in WordLexemes \cup {";", "&", "NL"}
    /\ \A i \in 2..Len(source) : IsWordAt(i) \/ IsWordAt(i - 1)

\* the separator that ends the n-th command is `&`
EndedByAmpersand(n) ==
    RunEnd(NthRun(n)) < Len(source) /\ source[RunEnd(NthRun(n)) + 1] = "&"

\* C5: the `asynchronous` flag of every command of the returned list is
\* true exactly when the separator that ended the command was `&`.
C5_AsyncFromSeparator ==
    (Done /\ TerminatedList) =>
        /\ ReturnedOk
        /\ Len(result.commands) = Cardinality(RunStarts)
        /\ \A n \in 1..Cardinality(RunStarts) :
               result.commands[n].asynchronous = EndedByAmpersand(n)

----------------------------------------------------------------------------
(* C6 *)

\* a committed construct is cut short at the end of an input made of
\* commands, `!`, `|`, `&&` and `||`: it ends with a command followed by `|`,
\* `&&` or `||`, or it ends with `!`
Truncated ==
    /\ Len(source) >= 1
    /\ \A i \in 1..Len(source) : source[i] \in WordLexemes \cup {"!", "|", "&&", "||"}
    /\ \/ source[Len(source)] \in {"|", "&&", "||"} /\ IsWordAt(Len(source) - 1)
       \/ source[Len(source)] = "!"

\* C6: parse() returns an error, never a command list, when a committed
\* construct is truncated (`cmd |`, `!`, `cmd &&`, `cmd ||` with nothing
\* following).
C6_TruncatedIsError == (Done /\ Truncated) => result.status = "Err"

----------------------------------------------------------------------------
(* C7 *)

\* C7: no Command of a returned tree, at top level or inside an If node, is
\* a Pipeline with inverted = false and exactly one stage, and every Pipeline
\* node has at least one command.
C7_NoRedundantPipeline ==
    \A c \in ReturnedCommands :
        c.command.type = "Pipeline" =>
            /\ Len(c.command.node.commands) >= 1
            /\ ~(~c.command.node.inverted /\ Len(c.command.node.commands) = 1)

\* `! a && b`: the condition stays a Pipeline, the branch is collapsed
C7_Witness ==
    /\ Done /\ ReturnedOk
    /\ \E c \in ReturnedCommands :
           /\ c.command.type = "If"
           /\ c.command.node.condition.commands[1].command.type = "Pipeline"
           /\ c.command.node.true_part # <<>>
           /\ c.command.node.true_part[1].commands[1].command.type = "SimpleCommand"

----------------------------------------------------------------------------
(* C8 *)

\* C8: the lookahead slot is empty at every call of unget_token, so its
\* assertion never fails, on paths that end in a parse error too.
C8_LookaheadAssertion == ~parser.panicked /\ result.error.kind # "Panic"

\* a parse that failed with a token pushed back
C8_Witness ==
    /\ Done /\ result.status = "Err" /\ result.error.kind = "Message"
    /\ parser.lookahead # <<>> /\ parser.lexer > 2

----------------------------------------------------------------------------
(* C9 *)

\* C9: on an empty input (end-of-stream only) parse() returns Ok with an
\* empty CompoundList.
C9_EmptyInput ==
    (Done /\ source = <<>>) =>
        result = [status |-> "Ok", commands |-> <<>>, error |-> NoErr]

C9_Witness == Done /\ source = <<>> /\ ReturnedOk

----------------------------------------------------------------------------
(* C10 *)

\* the stream positions a simple command of the tree was read from
FirstOf(sc) == (sc.assignments \o sc.words)[1].start
LastOf(sc) == FirstOf(sc) + Len(sc.assignments) + Len(sc.words) - 1

\* C10: the tokens of every SimpleCommand are a maximal run of word tokens
\* of the input; `assignments` is its maximal leading run of assignment-shaped
\* words, in order, and `words` is every remaining word in order, so an
\* assignment-shaped word after the first other word is in `words`.
C10_LeadingAssignments ==
    \A sc \in ReturnedSimple :
        /\ FirstOf(sc) \in RunStarts
        /\ LastOf(sc) = RunEnd(FirstOf(sc))
        /\ sc.assignments = WordTokens(FirstOf(sc), FirstPlain(FirstOf(sc), LastOf(sc)) - 1)
        /\ sc.words = WordTokens(FirstPlain(FirstOf(sc), LastOf(sc)), LastOf(sc))

\* `x=1 a x=1`: one leading assignment, and an assignment-shaped argument
C10_Witness ==
    /\ Done /\ ReturnedOk
    /\ \E sc \in ReturnedSimple :
           /\ Len(sc.assignments) = 1
           /\ Len(sc.words) = 2
           /\ sc.words[2].kind.arg \in AssignWords


(***************************************************************************)
(* repl.rs: the interactive loop and the job control set-up                *)
(***************************************************************************)

\* bound: the lines one entry may take before the model stops reading more
MaxLines == 3

\* what a line typed at the prompt may hold: nothing, or one lexeme
ReplLexemes == {"a", "|", "&&", "ERR"} \cup Openers
ReplLines == {<<>>} \cup {<<l>> : l \in ReplLexemes}

\* working directories and environments
Cwds == {"/", "/d"}
Envs == {"new", "e1"}
EnvBits(cwd, env) == [cwd |-> cwd, env |-> env]

\* errors of the stages after the parser, and of the line editor
CompileError == [kind |-> "CompileError", msg |-> "", start |-> 0]
MachineError == [kind |-> "MachineError", msg |-> "", start |-> 0]
RunError == [kind |-> "RunError", msg |-> "", start |-> 0]
ReadlineError == [kind |-> "ReadlineError", msg |-> "during readline", start |-> 0]

is_recoverable_parse_error_anylex(e) == e.kind = "LexError"

is_recoverable_parse_error_always(e) == TRUE

\* true if more text on a following line might resolve the error
is_recoverable_parse_error(e) ==
    IF e.kind = "LexError"
    THEN CASE e.msg = "EofDuringBackslash" -> TRUE
           [] e.msg = "EofDuringComment" -> TRUE
           [] e.msg = "EofDuringSingleQuotedString" -> TRUE
           [] e.msg = "EofDuringDoubleQuotedString" -> TRUE
           [] e.msg = "EofDuringAssignmentWord" -> TRUE
           [] e.msg = "EofDuringCommandSubstitution" -> TRUE
           [] e.msg = "EofDuringParameterExpansion" -> TRUE
           [] e.msg = "IoError" -> FALSE
    ELSE IF e.kind = "ParseErrorKind" THEN FALSE
    ELSE FALSE

\* the signals init_job_control sets to ignore, in the order of its loop
IgnoredSignals_short == <<"SIGINT", "SIGQUIT", "SIGTSTP">>

IgnoredSignals_chld == <<"SIGINT", "SIGQUIT", "SIGTSTP", "SIGTTIN", "SIGTTOU", "SIGCHLD">>

IgnoredSignals == <<"SIGINT", "SIGQUIT", "SIGTSTP", "SIGTTIN", "SIGTTOU">>

\* the signals of the model: those five, SIGCHLD, and SIGTERM for any other
Signals == {"SIGINT", "SIGQUIT", "SIGTSTP", "SIGTTIN", "SIGTTOU", "SIGCHLD", "SIGTERM"}

\* the shell's pid, which setpgid makes its process group
ShellPid == "shell"

InitRepl ==
    /\ source = <<>>
    /\ parser = NewParser
    /\ commands = <<>>
    /\ pc = "done"
    /\ result = NotReturned
    /\ rpc = "start"
    /\ input = <<>>
    /\ env_bits = EnvBits("/", "new")
    /\ process_cwd \in Cwds
    /\ prompt = ""
    /\ reports = <<>>
    /\ machine = <<>>
    /\ repl_result = "none"
    /\ job_polls = 0
    /\ tty_pgrp \in {"parent", "other"}
    /\ shell_pgrp = "parent"
    /\ disposition \in {d \in [Signals -> {"default", "ignore"}] :
                          \A s \in Signals \ {"SIGTTIN"} : d[s] = "default"}
    /\ sig_i = 1
    /\ init_log = <<>>
    /\ entry = <<>>
    /\ last = Ended("none", NoErr, FALSE)
    /\ ExpandIdle
    /\ HandleIdle

\* repl() returns: `?` on an error, or Ok(()) after the loop
ReplReturn(r) ==
    /\ rpc' = "returned"
    /\ repl_result' = r

\* let env = EnvBits { cwd: current_dir()?, env: Environment::new() }
ReplStart ==
    /\ rpc = "start"
    /\ \/ /\ env_bits' = EnvBits(process_cwd, "new")
          /\ rpc' = "init_wait"
          /\ UNCHANGED repl_result
       \/ /\ ReplReturn("Err")
          /\ UNCHANGED env_bits
    /\ UNCHANGED <<parseVars, expandVars, handleVars, job_polls, input, process_cwd, prompt, reports, machine,
                   tty_pgrp, shell_pgrp, disposition, sig_i, init_log, entry, last>>

\* init_job_control, step 1: loop until the shell is in the foreground; a
\* shell in the background sends SIGTTIN to its own group, which stops it
\* unless the signal is ignored
WaitForeground ==
    /\ rpc = "init_wait"
    /\ IF tty_pgrp = shell_pgrp
       THEN /\ rpc' = "init_signals"
            /\ init_log' = Append(init_log, "foreground")
       ELSE /\ rpc' = IF disposition["SIGTTIN"] = "default" THEN "init_stopped" ELSE "init_wait"
            /\ UNCHANGED init_log
    /\ UNCHANGED <<parseVars, expandVars, handleVars, job_polls, input, env_bits, process_cwd, prompt, reports, machine,
                   repl_result, tty_pgrp, shell_pgrp, disposition, sig_i, entry, last>>

\* the terminal's owner hands the terminal to the shell's group and
\* continues it
TerminalHandover ==
    /\ rpc \in {"init_wait", "init_stopped"}
    /\ tty_pgrp # shell_pgrp
    /\ tty_pgrp' = shell_pgrp
    /\ rpc' = "init_wait"
    /\ UNCHANGED <<parseVars, expandVars, handleVars, job_polls, input, env_bits, process_cwd, prompt, reports, machine,
                   repl_result, shell_pgrp, disposition, sig_i, init_log, entry, last>>

\* init_job_control, step 2: one turn of the loop over the signals
IgnoreSignal ==
    /\ rpc = "init_signals"
    /\ IF sig_i <= Len(IgnoredSignals)
       THEN /\ disposition' = [disposition EXCEPT ![IgnoredSignals[sig_i]] = "ignore"]
            /\ init_log' = Append(init_log, IgnoredSignals[sig_i])
            /\ sig_i' = sig_i + 1
            /\ UNCHANGED rpc
       ELSE /\ rpc' = "init_setpgid"
            /\ UNCHANGED <<disposition, init_log, sig_i>>
    /\ UNCHANGED <<parseVars, expandVars, handleVars, job_polls, input, env_bits, process_cwd, prompt, reports, machine,
                   repl_result, tty_pgrp, shell_pgrp, entry, last>>

SetPgid_continue ==
    /\ rpc = "init_setpgid"
    /\ \/ /\ shell_pgrp' = ShellPid
          /\ init_log' = Append(init_log, "setpgid")
       \/ UNCHANGED <<shell_pgrp, init_log>>
    /\ rpc' = "init_tcsetpgrp"
    /\ UNCHANGED <<parseVars, expandVars, handleVars, job_polls, input, env_bits, process_cwd, prompt, reports, machine,
                   repl_result, tty_pgrp, disposition, sig_i, entry, last>>

\* init_job_control, step 3: setpgid(getpid(), getpid()); its failure is
\* returned through init_job_control()? by repl()
SetPgid ==
    /\ rpc = "init_setpgid"
    /\ \/ /\ shell_pgrp' = ShellPid
          /\ init_log' = Append(init_log, "setpgid")
          /\ rpc' = "init_tcsetpgrp"
          /\ UNCHANGED repl_result
       \/ /\ ReplReturn("Err")
          /\ UNCHANGED <<shell_pgrp, init_log>>
    /\ UNCHANGED <<parseVars, expandVars, handleVars, job_polls, input, env_bits, process_cwd, prompt, reports, machine,
                   tty_pgrp, disposition, sig_i, entry, last>>

\* init_job_control, step 4: tcsetpgrp(pty_fd, shell_pgid); then repl()
\* builds the line editor and the empty input buffer and enters the loop
TcSetPgrp ==
    /\ rpc = "init_tcsetpgrp"
    /\ tty_pgrp' = shell_pgrp
    /\ init_log' = Append(init_log, "tcsetpgrp")
    /\ input' = <<>>
    /\ rpc' = "top"
    /\ UNCHANGED <<parseVars, expandVars, handleVars, job_polls, env_bits, process_cwd, prompt, reports, machine,
                   repl_result, shell_pgrp, disposition, sig_i, entry, last>>

PromptFor_swapped(buf) == IF buf = <<>> THEN "..> " ELSE "$ "

\* match input.is_empty() { true => "$ ", false => "..> " }
PromptFor(buf) == IF buf = <<>> THEN "$ " ELSE "..> "

Polled_skip(n) == n

\* JOB_LIST.check_and_print_status()
Polled(n) == n + 1

\* the top of the loop: prompt, job status, working directory
LoopTop ==
    /\ rpc = "top"
    /\ prompt' = PromptFor(input)
    /\ job_polls' = Polled(job_polls)
    /\ reports' = <<>>
    /\ machine' = <<>>
    /\ \/ /\ process_cwd' = env_bits.cwd
          /\ rpc' = "read"
          /\ UNCHANGED repl_result
       \/ /\ ReplReturn("Err")
          /\ UNCHANGED process_cwd
    /\ UNCHANGED <<parseVars, expandVars, handleVars, input, env_bits, tty_pgrp, shell_pgrp, disposition,
                   sig_i, init_log, entry, last>>

\* readline gave Ok(line): the line joins the buffer and compile_and_run
\* starts a parser on the whole buffer
ReadLine ==
    /\ rpc = "read"
    /\ Len(entry) < MaxLines
    /\ \E line \in ReplLines :
          /\ input' = input \o line
          /\ source' = input \o line
          /\ entry' = Append(entry, line)
    /\ parser' = NewParser
    /\ commands' = <<>>
    /\ pc' = "first"
    /\ result' = NotReturned
    /\ rpc' = "parse"
    /\ UNCHANGED <<expandVars, handleVars, job_polls, env_bits, process_cwd, prompt, reports, machine, repl_result,
                   tty_pgrp, shell_pgrp, disposition, sig_i, init_log, last>>

\* the lexical errors of reaching the end of input inside a construct
EofDuringKinds ==
    {"EofDuringBackslash", "EofDuringComment", "EofDuringSingleQuotedString",
     "EofDuringDoubleQuotedString", "EofDuringAssignmentWord",
     "EofDuringCommandSubstitution", "EofDuringParameterExpansion"}
IsRecoverableFailure(e) == e.kind = "LexError" /\ e.msg \in EofDuringKinds

Reported_twice(log, e, text) == log \o <<[error |-> e, text |-> text], [error |-> e, text |-> text]>>

\* print_error(&e, &input)
Reported(log, e, text) == Append(log, [error |-> e, text |-> text])

Retry_bare(buf) == buf

\* input.push('\n')
Retry(buf) == buf \o <<"NL">>

\* Err(e) of compile_and_run: report and clear, or keep the buffer for the
\* next line; then `continue`
Failure(e) ==
    /\ IF ~is_recoverable_parse_error(e)
       THEN /\ reports' = Reported(reports, e, input)
            /\ input' = <<>>
       ELSE /\ input' = Retry(input)
            /\ UNCHANGED reports
    /\ last' = Ended("line", e, FALSE)
    /\ entry' = IF IsRecoverableFailure(e) THEN entry ELSE <<>>
    /\ job_polls' = 0
    /\ rpc' = "top"

\* job.rs: the shell's group takes the terminal back
put_shell_in_foreground == tty_pgrp' = shell_pgrp

\* a Machine: the environment it starts from (the environment it is given
\* and the working directory of the process), its top environment after
\* the run, and the status of the run
Machine(start, top, status) == [start |-> start, top |-> top, status |-> status]

EnvAfterRun_cwd(m) == EnvBits(m.top.cwd, env_bits.env)

\* let (cwd, env) = machine.top_environment(); env_bits.cwd = cwd; env_bits.env = env
EnvAfterRun(m) == EnvBits(m.top.cwd, m.top.env)

\* machine.run() and the rest of the iteration: a command that ran may
\* have left the terminal to its own group
Run(m, fg) ==
    /\ machine' = m
    /\ env_bits' = EnvAfterRun(m)
    /\ IF m.status = "Ok"
       THEN /\ input' = <<>>
            /\ put_shell_in_foreground
            /\ last' = Ended("line", NoErr, TRUE)
            /\ entry' = <<>>
            /\ rpc' = "top"
            /\ job_polls' = 0
            /\ UNCHANGED reports
       ELSE /\ Failure(RunError)
            /\ tty_pgrp' = fg

\* compile_and_run after the parser returned, and the match on its result
CompileAndRun ==
    /\ rpc = "parse"
    /\ pc = "done"
    /\ IF result.status = "Err"
       THEN /\ Failure(result.error)
            /\ UNCHANGED <<machine, env_bits, tty_pgrp>>
       ELSE \/ /\ Failure(CompileError)
               /\ UNCHANGED <<machine, env_bits, tty_pgrp>>
            \/ /\ Failure(MachineError)
               /\ UNCHANGED <<machine, env_bits, tty_pgrp>>
            \/ \E cwd \in Cwds, env \in Envs, status \in {"Ok", "Err"}, fg \in {shell_pgrp, "job"} :
                  Run(Machine(EnvBits(process_cwd, env_bits.env), EnvBits(cwd, env), status), fg)
    /\ UNCHANGED <<parseVars, expandVars, handleVars, process_cwd, prompt, repl_result, shell_pgrp,
                   disposition, sig_i, init_log>>

AfterInterrupt_keep(buf) == buf

\* Err(ReadlineError::Interrupted) => { input.clear(); continue }
AfterInterrupt(buf) == <<>>

Interrupt ==
    /\ rpc = "read"
    /\ input' = AfterInterrupt(input)
    /\ entry' = <<>>
    /\ last' = Ended("interrupt", NoErr, FALSE)
    /\ job_polls' = 0
    /\ rpc' = "top"
    /\ UNCHANGED <<parseVars, expandVars, handleVars, env_bits, process_cwd, prompt, reports, machine,
                   repl_result, tty_pgrp, shell_pgrp, disposition, sig_i, init_log>>

\* Err(ReadlineError::Eof) => break; then Ok(())
EndOfInput ==
    /\ rpc = "read"
    /\ ReplReturn("Ok")
    /\ last' = Ended("eof", NoErr, FALSE)
    /\ UNCHANGED <<parseVars, expandVars, handleVars, job_polls, input, env_bits, process_cwd, prompt, reports, machine,
                   tty_pgrp, shell_pgrp, disposition, sig_i, init_log, entry>>

\* Err(err) => { print_error(.., ""); break }; then Ok(())
ReadError ==
    /\ rpc = "read"
    /\ reports' = Reported(reports, ReadlineError, <<>>)
    /\ ReplReturn("Ok")
    /\ last' = Ended("error", ReadlineError, FALSE)
    /\ UNCHANGED <<parseVars, expandVars, handleVars, job_polls, input, env_bits, process_cwd, prompt, machine,
                   tty_pgrp, shell_pgrp, disposition, sig_i, init_log, entry>>

NextRepl ==
    \/ ReplStart
    \/ WaitForeground
    \/ TerminalHandover
    \/ IgnoreSignal
    \/ SetPgid
    \/ TcSetPgrp
    \/ LoopTop
    \/ ReadLine
    \/ ParseFirst
    \/ ParseLoop
    \/ CompileAndRun
    \/ Interrupt
    \/ EndOfInput
    \/ ReadError

SpecRepl == InitRepl /\ [][NextRepl]_vars

(***************************************************************************)
(* Claims about the interactive loop (checked under SpecRepl)              *)
(***************************************************************************)

\* the iteration before this point read a line and compile_and_run failed
LineFailed == last.event = "line" /\ last.error # NoErr

\* C13: is_recoverable_parse_error answers true exactly for a lex error of
\* one of the seven end-of-input-inside-a-construct kinds, and false for a
\* lex I/O error, for every parse error and for every other error, in every
\* state and however often the error was seen before.
C13_Classification ==
    LineFailed =>
        /\ is_recoverable_parse_error(last.error)
              <=> (last.error.kind = "LexError" /\ last.error.msg \in EofDuringKinds)
        /\ last.error = LexErrorOf("IoError") => ~is_recoverable_parse_error(last.error)
        /\ last.error.kind \in {"ParseErrorKind", "Message"} => ~is_recoverable_parse_error(last.error)
        /\ last.error.kind \notin {"LexError", "ParseErrorKind", "Message"}
              => ~is_recoverable_parse_error(last.error)

\* C13 witness: the same unterminated construct was met on two lines in a row
C13_Witness ==
    /\ rpc = "top"
    /\ LineFailed
    /\ last.error = LexErrorOf("EofDuringAssignmentWord")
    /\ Len(entry) = 2

RECURSIVE JoinNL(_)
\* the lines joined by single newlines
JoinNL(lines) ==
    IF lines = <<>> THEN <<>>
    ELSE IF Len(lines) = 1 THEN lines[1]
    ELSE lines[1] \o <<"NL">> \o JoinNL(Tail(lines))

\* the iteration before this point ended in a recoverable failure
EndedRecoverable == rpc = "top" /\ LineFailed /\ IsRecoverableFailure(last.error)

\* the iteration before this point ended in a fatal failure
EndedFatal == rpc = "top" /\ LineFailed /\ ~IsRecoverableFailure(last.error)

\* the iteration before this point ran the program with success
EndedSuccess == rpc = "top" /\ last.event = "line" /\ last.error = NoErr

\* C14: after an iteration that ended in a recoverable failure the buffer is
\* the text that was parsed (previous buffer + line) + one newline, nothing
\* was reported and the loop goes on; the text handed to the parser is the
\* lines of the entry so far joined by single newlines.
C14_Continuation ==
    /\ EndedRecoverable =>
          /\ input = source \o <<"NL">>
          /\ input = JoinNL(entry) \o <<"NL">>
          /\ reports = <<>>
          /\ repl_result = "none"
    /\ rpc = "parse" =>
          /\ source = JoinNL(entry)
          /\ input = source

\* C14 witness: a third line is parsed after two recoverable lines
C14_Witness ==
    /\ rpc = "parse"
    /\ Len(entry) = 3
    /\ entry[1] # <<>> /\ entry[2] # <<>> /\ entry[3] # <<>>
    /\ entry[1] # entry[2]
    /\ source = <<entry[1][1], "NL", entry[2][1], "NL", entry[3][1]>>

\* C15: after an iteration that ended in a fatal failure the error was
\* reported exactly once, together with the accumulated buffer, and the
\* buffer is empty when the next iteration starts: the next text parsed
\* holds nothing of the failed entry.
C15_FatalReported ==
    /\ EndedFatal =>
          /\ reports = <<[error |-> last.error, text |-> source]>>
          /\ input = <<>>
          /\ entry = <<>>
    /\ (rpc = "read" /\ LineFailed /\ ~IsRecoverableFailure(last.error)) => input = <<>>
    /\ (rpc = "parse" /\ Len(entry) = 1) => source = entry[1]

\* C15 witness: a fatal failure on the second line of an entry
C15_Witness ==
    /\ EndedFatal
    /\ Len(source) = 3
    /\ last.error = CompileError
    /\ reports # <<>>
    /\ reports[1].text = source

\* C16: after an iteration that succeeded the buffer is empty and the
\* persistent cwd/environment pair is the top environment of the machine
\* that ran; every machine starts from the persistent pair of that moment.
C16_Success ==
    /\ [](EndedSuccess =>
            /\ input = <<>>
            /\ machine # <<>>
            /\ machine.status = "Ok"
            /\ env_bits = EnvBits(machine.top.cwd, machine.top.env))
    /\ [][(rpc = "parse" /\ rpc' = "top" /\ machine' # <<>>) => machine'.start = env_bits]_vars

\* C16 witness: a successful run that started from what an earlier run
\* left and changed both the directory and the environment
C16_Witness ==
    /\ EndedSuccess
    /\ machine # <<>>
    /\ machine.start = EnvBits("/d", "e1")
    /\ machine.top = EnvBits("/", "new")
    /\ env_bits = EnvBits("/", "new")

\* the iteration before this point reached machine.run
Executed == last.event = "line" /\ last.error \in {NoErr, RunError}

\* C17: after an iteration that reached machine.run, whatever the run
\* returned, put_shell_in_foreground was called before the next line is
\* read, and the shell's group is the terminal's foreground group at the
\* prompt.
C17_ForegroundAfterRun ==
    (rpc \in {"top", "read"} /\ Executed) =>
        /\ last.foreground
        /\ tty_pgrp = shell_pgrp

\* C18: an interrupt at the read step empties the buffer and the loop goes
\* on, the next text parsed being the next line alone; end-of-input at the
\* read step ends the loop and repl returns Ok, whatever the buffer holds.
C18_InterruptAndEof ==
    /\ []((rpc = "top" /\ last.event = "interrupt") =>
            /\ input = <<>>
            /\ repl_result = "none")
    /\ [][(rpc = "read" /\ rpc' = "parse" /\ last.event = "interrupt")
             => \E line \in ReplLines : source' = line]_vars
    /\ [][(rpc = "read" /\ rpc' = "top") => (last'.event = "interrupt" /\ input' = <<>>)]_vars
    /\ [](last.event = "eof" => (rpc = "returned" /\ repl_result = "Ok"))

\* C18 witness: an interrupt at a continuation prompt left an empty buffer
C18_Witness ==
    /\ rpc = "top"
    /\ last.event = "interrupt"
    /\ prompt = "..> "
    /\ input = <<>>

\* C19: the prompt of an iteration is `$ ` iff the buffer is empty and
\* `..> ` otherwise, and it is `..> ` exactly when the iteration before
\* ended in a recoverable failure.
C19_Prompt ==
    rpc = "read" =>
        /\ prompt = "$ " <=> input = <<>>
        /\ prompt = "..> " <=> input # <<>>
        /\ prompt = "..> " <=> (LineFailed /\ IsRecoverableFailure(last.error))

\* C19 witness: a continuation prompt for the third line of an entry
C19_Witness ==
    /\ rpc = "read"
    /\ prompt = "..> "
    /\ Len(entry) = 2

\* the steps of the session initialization, in the order claimed
InitSteps ==
    <<"foreground", "SIGINT", "SIGQUIT", "SIGTSTP", "SIGTTIN", "SIGTTOU", "setpgid", "tcsetpgrp">>

\* C20: init_job_control waits for the foreground, then ignores SIGINT,
\* SIGQUIT, SIGTSTP, SIGTTIN, SIGTTOU, then calls setpgid, then tcsetpgrp,
\* all of it before anything is parsed or run; SIGTTIN and SIGTTOU are
\* ignored when the group changes and the terminal is claimed, and
\* tcsetpgrp is called only after setpgid succeeded.
C20_InitOrder ==
    /\ Len(init_log) <= Len(InitSteps)
    /\ init_log = SubSeq(InitSteps, 1, Len(init_log))
    /\ (rpc \in {"top", "read", "parse"} \/ pc # "done" \/ result # NotReturned \/ machine # <<>>)
          => init_log = InitSteps
    /\ (rpc = "init_signals" /\ init_log = <<"foreground">>) => tty_pgrp = shell_pgrp
    /\ rpc \in {"init_setpgid", "init_tcsetpgrp"}
          => (disposition["SIGTTIN"] = "ignore" /\ disposition["SIGTTOU"] = "ignore")
    /\ (Len(init_log) = Len(InitSteps)) => (shell_pgrp = ShellPid /\ tty_pgrp \in {ShellPid, "job"})
    /\ rpc = "init_tcsetpgrp" => shell_pgrp = ShellPid

\* C20 witness: a program was parsed after the whole initialization
C20_Witness ==
    /\ rpc = "parse"
    /\ pc = "done"
    /\ result.status = "Ok"
    /\ init_log = InitSteps
    /\ disposition["SIGCHLD"] = "default"

(***************************************************************************)
(* parse.rs: SimpleCommand::expand_argv                                    *)
(***************************************************************************)

\* bound: the longest `words` list
MaxWords == 3

\* word texts: a parameter that may expand to nothing, two command names,
\* and what the aliases put in their place
WordTexts == {"$e", "ls", "foo"}
AliasNames == {"ls", "foo"}
Replacement(name) == IF name = "ls" THEN "ls -l" ELSE "bar"
Texts == WordTexts \cup {Replacement(n) : n \in AliasNames}

\* alias tables: any subset of the names is aliased
AliasTables == UNION {[D -> Texts] : D \in SUBSET AliasNames}
Aliases == {al \in AliasTables : \A n \in DOMAIN al : al[n] = Replacement(n)}

\* expanders: a text expands to its fields or to no field; the parameter
\* expansion may also fail
Expanders ==
    {ex \in [Texts -> {"fields", "nothing", "error"}] : \A t \in Texts \ {"$e"} : ex[t] # "error"}

\* field splitting of a text
Fields(text) == IF text = "ls -l" THEN <<"ls", "-l">> ELSE <<text>>

\* expander.expand_word(text, env), when it does not fail
expand_word(ex, text) == IF ex[text] = "nothing" THEN <<>> ELSE Fields(text)

\* Token::apply_command_word_rules(Some(aliases)): an aliased word is
\* replaced by its alias text
apply_command_word_rules(token, al) ==
    IF token.kind.tag = "Word" /\ token.kind.arg \in DOMAIN al
    THEN [token EXCEPT !.kind = Word(al[token.kind.arg])]
    ELSE token

\* the commands simple_command builds: assignment words first, then words
WordLists == UNION {[1..k -> WordTexts] : k \in 0..MaxWords}
AssignmentLists == {<<>>, <<"x=1">>}
CommandOf(as, ws) ==
    SimpleCommand([i \in 1..Len(as) |-> Token(Word(as[i]), i)],
                  [i \in 1..Len(ws) |-> Token(Word(ws[i]), Len(as) + i)],
                  FALSE)

ParseIdle ==
    /\ source = <<>>
    /\ parser = NewParser
    /\ commands = <<>>
    /\ pc = "done"
    /\ result = NotReturned

\* a call cmd.expand_argv(env, expander, aliases): let mut argv = vec![]
InitExpand ==
    /\ ParseIdle
    /\ ReplIdle
    /\ HandleIdle
    /\ xpc = "loop"
    /\ \E as \in AssignmentLists, ws \in WordLists : xcmd = CommandOf(as, ws)
    /\ expander \in Expanders
    /\ aliases \in Aliases
    /\ xi = 1
    /\ argv = <<>>
    /\ ruled = {}

\* if argv.is_empty() { word.apply_command_word_rules(Some(aliases)) }
RuleApplies(i, acc) == acc = <<>>

\* the word of this turn of the loop, after the rules
WordOfTurn(i, acc) ==
    IF RuleApplies(i, acc)
    THEN apply_command_word_rules(xcmd.words[i], aliases)
    ELSE xcmd.words[i]

\* one turn of `for word in &self.words`
ExpandWord ==
    /\ xpc = "loop"
    /\ xi <= Len(xcmd.words)
    /\ ruled' = IF RuleApplies(xi, argv) THEN ruled \cup {xi} ELSE ruled
    /\ IF WordOfTurn(xi, argv).kind.tag \in {"Word", "Name"}
       THEN IF expander[WordOfTurn(xi, argv).kind.arg] = "error"
            THEN /\ xpc' = "failed"
                 /\ UNCHANGED <<argv, xi>>
            ELSE /\ argv' = argv \o expand_word(expander, WordOfTurn(xi, argv).kind.arg)
                 /\ xi' = xi + 1
                 /\ UNCHANGED xpc
       ELSE /\ xpc' = "failed"
            /\ UNCHANGED <<argv, xi>>
    /\ UNCHANGED <<parseVars, replVars, handleVars, xcmd, expander, aliases>>

\* Ok(argv)
ExpandReturn ==
    /\ xpc = "loop"
    /\ xi > Len(xcmd.words)
    /\ xpc' = "done"
    /\ UNCHANGED <<parseVars, replVars, handleVars, xcmd, expander, aliases, xi, argv, ruled>>

NextExpand == ExpandWord \/ ExpandReturn

SpecExpand == InitExpand /\ [][NextExpand]_vars

(***************************************************************************)
(* Claims about expand_argv (checked under SpecExpand)                     *)
(***************************************************************************)

RECURSIVE Concat(_)
\* the concatenation of a sequence of sequences
Concat(seqs) == IF seqs = <<>> THEN <<>> ELSE Head(seqs) \o Concat(Tail(seqs))

\* the text expanded for the word at index i when the rules are applied to
\* the command word (index 1) only
ClaimedText(i) ==
    IF i = 1 /\ xcmd.words[i].kind.arg \in DOMAIN aliases
    THEN aliases[xcmd.words[i].kind.arg]
    ELSE xcmd.words[i].kind.arg

\* C11: expand_argv returns the expansions of the tokens of `words`, in
\* order, the command word (the first one) rewritten by its alias; the
\* tokens of `assignments` add nothing.
C11_ArgvOfWords ==
    xpc = "done" =>
        argv = Concat([i \in 1..Len(xcmd.words) |-> expand_word(expander, ClaimedText(i))])

\* C12: the command-word rules are applied to the first token of `words`
\* and to no other, once per call, also when some word expands to no field.
C12_RulesOnFirstOnly ==
    /\ ruled \subseteq {1}
    /\ (xpc = "done" /\ xcmd.words # <<>>) => ruled = {1}

\* the step of the session initialization has been done
StepDone(step) == \E i \in 1..Len(init_log) : init_log[i] = step

\* C21: when setpgid fails, init_job_control and repl return the error;
\* no prompt is shown, no line is read, nothing is parsed or run, and the
\* shell does not call tcsetpgrp: the terminal stays with the group the
\* shell was started in.
C21_SetPgidFailure ==
    /\ ~StepDone("setpgid") =>
          /\ ~StepDone("tcsetpgrp")
          /\ prompt = ""
          /\ entry = <<>>
          /\ source = <<>>
          /\ result = NotReturned
          /\ machine = <<>>
          /\ rpc \notin {"top", "read", "parse"}
          /\ shell_pgrp # ShellPid
          /\ tty_pgrp # ShellPid
    /\ (rpc = "returned" /\ StepDone("SIGTTOU") /\ ~StepDone("setpgid")) =>
          /\ repl_result = "Err"
          /\ tty_pgrp = shell_pgrp

\* C21 witness: repl returned after the signals were set and setpgid failed
C21_Witness ==
    /\ rpc = "returned"
    /\ repl_result = "Err"
    /\ StepDone("SIGTTOU")
    /\ ~StepDone("setpgid")

\* interrupt, quit, terminal-stop, terminal-input, terminal-output
FiveSignals == {"SIGINT", "SIGQUIT", "SIGTSTP", "SIGTTIN", "SIGTTOU"}

\* C22: the session initialization sets exactly the five interactive and
\* job control signals to ignore; no step of the shell changes the
\* disposition of SIGCHLD or of any other signal.
C22_FiveSignals ==
    /\ [][\A s \in Signals : disposition'[s] # disposition[s]
              => (s \in FiveSignals /\ disposition'[s] = "ignore" /\ rpc = "init_signals")]_vars
    /\ [](StepDone("setpgid") => \A s \in FiveSignals : disposition[s] = "ignore")
    /\ [](disposition["SIGCHLD"] = "default" /\ disposition["SIGTERM"] = "default")

\* C22 witness: the initialization is over, the five signals are ignored
\* and SIGCHLD has the disposition it had
C22_Witness ==
    /\ rpc = "read"
    /\ \A s \in FiveSignals : disposition[s] = "ignore"
    /\ disposition["SIGCHLD"] = "default"
    /\ disposition["SIGTERM"] = "default"

\* C23: the job status is checked once in every iteration, at the top of
\* the loop and before the read; it is not checked from the start of the
\* read to the end of the execution; however the iteration before ended,
\* the read is entered through a check.
C23_JobStatusAtTop ==
    /\ [](rpc \in {"read", "parse"} => job_polls = 1)
    /\ [](rpc = "top" => job_polls = 0)
    /\ [][job_polls' > job_polls => (rpc = "top" /\ job_polls' = job_polls + 1)]_vars
    /\ [][(rpc # "read" /\ rpc' = "read") => (rpc = "top" /\ job_polls' = job_polls + 1)]_vars

\* C23 witness: the status was checked once before a continuation line is read
C23_Witness ==
    /\ rpc = "read"
    /\ job_polls = 1
    /\ prompt = "..> "
    /\ IsRecoverableFailure(last.error)

(***************************************************************************)
(* Further claims about parse() (checked under Spec)                       *)
(***************************************************************************)

\* C24: when the input begins with `;` or with a newline (no first and_or,
\* and the stream is not at its end), parse() fails with UnexpectedToken.
C24_UnexpectedFirst ==
    (Done /\ source # <<>> /\ source[1] \in {";", "NL"}) =>
        (result.status = "Err" /\ result.error.kind = "ParseErrorKind")

\* the index in the stream of the token the parser will give next
NextIndex(p) == IF IsSome(p.lookahead) THEN Unwrap(p.lookahead).start ELSE p.lexer

\* simple_command gave `r` from the parser state `p`: if it is none, the
\* parser still gives the same token next, unless the stream was at its end
NoneKeepsTokens(p, r) ==
    (IsOk(r) /\ ~IsSome(r.val)) =>
        (NextIndex(r.p) = NextIndex(p) \/ NextIndex(p) > Len(source))

\* C25: when simple_command returns none, the only token it can have
\* consumed is end-of-stream; `;`, newline, `&&`, `||` and `&` are still
\* there for the caller.
C25_NoneConsumesOnlyEof ==
    (pc # "done" /\ ~parser.panicked) => NoneKeepsTokens(parser, simple_command(parser))

\* every token of the sequence is a word (or name) token
AllWords(tokens) == \A i \in 1..Len(tokens) : tokens[i].kind.tag \in {"Word", "Name"}

\* C26: in every tree parse() returns, the tokens of `words` and of
\* `assignments` of every SimpleCommand are word tokens: no operator,
\* reserved word, newline or end-of-stream token is in the tree.
C26_OnlyWordTokens ==
    (Done /\ ReturnedOk) =>
        \A sc \in ReturnedSimple : AllWords(sc.words) /\ AllWords(sc.assignments)

\* C26 witness: a tree of two commands from an input with an assignment
\* word and an operator
C26_Witness ==
    /\ Done
    /\ ReturnedOk
    /\ source = <<"x=1", "a", ";", "b">>
    /\ Cardinality(ReturnedSimple) = 2

\* the SimpleCommands of the returned tree that hold the token of index i
HoldersOf(i) ==
    {sc \in ReturnedSimple :
        \/ \E k \in 1..Len(sc.words) : sc.words[k].start = i
        \/ \E k \in 1..Len(sc.assignments) : sc.assignments[k].start = i}

\* C27: when parse() returns Ok the stream has been consumed up to its
\* end and every word token of the input is in exactly one SimpleCommand
\* of the tree.
C27_WholeInputParsed ==
    (Done /\ ReturnedOk) =>
        /\ NextIndex(parser) > Len(source)
        /\ \A i \in 1..Len(source) : IsWordAt(i) => Cardinality(HoldersOf(i)) = 1

\* C28: for every finite token stream parse() terminates, with a list or
\* with an error; a turn of its loop that goes on to another turn has
\* moved the parser forward in the stream.
C28_Terminates ==
    /\ <>(Done /\ result.status \in {"Ok", "Err"})
    /\ [][(pc # "done" /\ pc' = "loop") => NextIndex(parser') > NextIndex(parser)]_vars

\* C28 witness: parse() returned after three turns of its while loop
C28_Witness ==
    /\ Done
    /\ ReturnedOk
    /\ Len(result.commands) = 2
    /\ NextIndex(parser) > Len(source)

\* C29: an iteration whose buffer fails to lex, parse or compile runs no
\* machine and leaves the persistent cwd/environment pair as it was; a
\* machine runs only on a buffer that parsed, and once a machine has run
\* the buffer is not kept, so nothing of an entry runs twice.
C29_NothingRunOnFailure ==
    /\ [][(rpc = "parse" /\ rpc' = "top" /\ last'.error \notin {NoErr, RunError})
             => (machine' = <<>> /\ env_bits' = env_bits)]_vars
    /\ []((rpc = "top" /\ machine # <<>>) => (result.status = "Ok" /\ input = <<>> /\ entry = <<>>))
    /\ []((rpc = "top" /\ input # <<>>) => machine = <<>>)

\* C29 witness: a compile error in a session whose environment an earlier
\* run had changed
C29_Witness ==
    /\ rpc = "top"
    /\ last.error = CompileError
    /\ machine = <<>>
    /\ env_bits = EnvBits("/d", "e1")

----------------------------------------------------------------------------
\* filedescriptor/src/windows.rs: OwnedHandle

MaxHandles == 2    \* OS objects the process is given
MaxOwned == 2      \* OwnedHandle values alive at the same time

\* the kinds of OS object a handle can name
OsObjects == {"char", "disk", "pipe", "socket", "other"}

\* enum HandleType
HandleTypes == {"Char", "Disk", "Pipe", "Socket", "Unknown"}

OwnedHandle(handle, handle_type) == [handle |-> handle, handle_type |-> handle_type]

\* the handle was passed to closesocket or CloseHandle
Closed(h) == \E c \in BagToSet(closes) : c.handle = h

\* the object an open handle names ("none" for NULL, INVALID_HANDLE_VALUE
\* and closed handles)
ObjectOf(h) == IF h \in DOMAIN opened /\ ~Closed(h) THEN opened[h] ELSE "none"

GetFileType(obj) ==
    CASE obj = "char" -> "FILE_TYPE_CHAR"
      [] obj = "disk" -> "FILE_TYPE_DISK"
      [] obj \in {"pipe", "socket"} -> "FILE_TYPE_PIPE"
      [] OTHER -> "FILE_TYPE_UNKNOWN"

\* succeeds on pipes only
GetNamedPipeInfo(obj) == obj = "pipe"

\* probe_handle_type, on the object the handle names
ProbeObject(obj) ==
    CASE GetFileType(obj) = "FILE_TYPE_CHAR" -> "Char"
      [] GetFileType(obj) = "FILE_TYPE_DISK" -> "Disk"
      [] GetFileType(obj) = "FILE_TYPE_PIPE" ->
            IF GetNamedPipeInfo(obj) THEN "Pipe" ELSE "Socket"
      [] OTHER -> "Unknown"

probe_handle_type(handle) == ProbeObject(ObjectOf(handle))

probe_handle_type_if_unknown(handle, handle_type) ==
    IF handle_type = "Unknown" THEN probe_handle_type(handle) ELSE handle_type

is_socket_handle(self) ==
    CASE self.handle_type = "Socket" -> TRUE
      [] self.handle_type = "Unknown" -> probe_handle_type(self.handle) = "Socket"
      [] OTHER -> FALSE

\* the bag with one more, and with one less, copy of e
With(bag, e) == bag (+) SetToBag({e})
Without(bag, e) == bag (-) SetToBag({e})

Op(op, handle) == [op |-> op, handle |-> handle]

\* OwnedHandle::from_raw_handle(handle), on a handle the caller owns: a
\* new object from the OS, a raw handle it was handed, or no object
from_raw_handle ==
    /\ BagCardinality(owned) < MaxOwned
    /\ \/ \E obj \in OsObjects :
            /\ Len(opened) < MaxHandles
            /\ opened' = Append(opened, obj)
            /\ owned' = With(owned, OwnedHandle(Len(opened) + 1, ProbeObject(obj)))
            /\ hlast' = Op("from_raw_handle", Len(opened) + 1)
            /\ UNCHANGED raw
       \/ \E handle \in raw \cup {NULL, INVALID_HANDLE_VALUE} :
            /\ owned' = With(owned, OwnedHandle(handle, probe_handle_type(handle)))
            /\ raw' = raw \ {handle}
            /\ hlast' = Op("from_raw_handle", handle)
            /\ UNCHANGED opened
    /\ UNCHANGED <<closes, parseVars, replVars, expandVars>>

\* Pipe::new()
PipeNew ==
    /\ \/ /\ Len(opened) + 2 <= MaxHandles
          /\ BagCardinality(owned) + 2 <= MaxOwned
          /\ opened' = opened \o <<"pipe", "pipe">>
          /\ owned' = With(With(owned, OwnedHandle(Len(opened) + 1, "Pipe")),
                              OwnedHandle(Len(opened) + 2, "Pipe"))
          /\ hlast' = Op("Pipe::new", Len(opened) + 2)
       \/ \* CreatePipe failed
          /\ hlast' = Op("Pipe::new failed", INVALID_HANDLE_VALUE)
          /\ UNCHANGED <<opened, owned>>
    /\ UNCHANGED <<closes, raw, parseVars, replVars, expandVars>>

\* socket(af, sock_type, proto)
socket ==
    /\ \/ /\ Len(opened) < MaxHandles
          /\ BagCardinality(owned) < MaxOwned
          /\ opened' = Append(opened, "socket")
          /\ owned' = With(owned, OwnedHandle(Len(opened) + 1, "Socket"))
          /\ hlast' = Op("socket", Len(opened) + 1)
       \/ \* WSASocketW returned INVALID_SOCKET
          /\ hlast' = Op("socket failed", INVALID_HANDLE_VALUE)
          /\ UNCHANGED <<opened, owned>>
    /\ UNCHANGED <<closes, raw, parseVars, replVars, expandVars>>

\* OwnedHandle::dup_impl(f, handle_type) on a live OwnedHandle f; the
\* caller passes f's own handle type or the default one
dup_impl ==
    \E f \in BagToSet(owned) :
      \E handle_type \in {f.handle_type, "Unknown"} :
        /\ BagCardinality(owned) < MaxOwned
        /\ IF f.handle = INVALID_HANDLE_VALUE \/ f.handle = NULL
           THEN /\ owned' = With(owned, OwnedHandle(f.handle, handle_type))
                /\ hlast' = Op("dup", f.handle)
                /\ UNCHANGED opened
           ELSE \/ \* DuplicateHandle gave a new handle to the same object
                   /\ Len(opened) < MaxHandles
                   /\ opened' = Append(opened, ObjectOf(f.handle))
                   /\ owned' = With(owned,
                          OwnedHandle(Len(opened) + 1,
                                      probe_handle_type_if_unknown(f.handle, handle_type)))
                   /\ hlast' = Op("dup", Len(opened) + 1)
                \/ \* DuplicateHandle failed
                   /\ hlast' = Op("dup failed", f.handle)
                   /\ UNCHANGED <<opened, owned>>
        /\ UNCHANGED <<closes, raw, parseVars, replVars, expandVars>>

\* into_raw_handle(self): mem::forget(self), no drop
into_raw_handle ==
    \E self \in BagToSet(owned) :
        /\ owned' = Without(owned, self)
        /\ raw' = raw \cup {self.handle}
        /\ hlast' = Op("into_raw_handle", self.handle)
        /\ UNCHANGED <<opened, closes, parseVars, replVars, expandVars>>

ShouldClose_always(handle) == TRUE

\* the test of drop
ShouldClose(handle) == handle # INVALID_HANDLE_VALUE /\ handle # NULL

Close(fn, handle) == [fn |-> fn, handle |-> handle]

\* drop(&mut self), at the end of an OwnedHandle's life
drop ==
    \E self \in BagToSet(owned) :
        /\ IF ShouldClose(self.handle)
           THEN IF is_socket_handle(self)
                THEN closes' = With(closes, Close("closesocket", self.handle))
                ELSE closes' = With(closes, Close("CloseHandle", self.handle))
           ELSE UNCHANGED closes
        /\ owned' = Without(owned, self)
        /\ hlast' = Op("drop", self.handle)
        /\ UNCHANGED <<opened, raw, parseVars, replVars, expandVars>>

InitHandle ==
    /\ ParseIdle
    /\ ReplIdle
    /\ ExpandIdle
    /\ opened = <<>>
    /\ owned = EmptyBag
    /\ closes = EmptyBag
    /\ raw = {}
    /\ hlast = Op("none", NULL)

NextHandle ==
    \/ from_raw_handle
    \/ PipeNew
    \/ socket
    \/ dup_impl
    \/ into_raw_handle
    \/ drop

SpecHandle == InitHandle /\ [][NextHandle]_vars

\* C30: every handle is closed at most once, and only a valid one: a
\* close call never gets NULL or INVALID_HANDLE_VALUE, it is closesocket
\* exactly for sockets and CloseHandle for everything else, a drop closes
\* its handle exactly when the handle is valid, and a handle handed out by
\* into_raw_handle has not been closed.
C30_ClosedOnce ==
    /\ \A c \in BagToSet(closes) :
          /\ CopiesIn(c, closes) = 1
          /\ \A d \in BagToSet(closes) : d.handle = c.handle => d = c
          /\ c.handle \notin {NULL, INVALID_HANDLE_VALUE}
          /\ c.handle \in DOMAIN opened
          /\ c.fn = "closesocket" <=> opened[c.handle] = "socket"
    /\ hlast.op = "drop" =>
          (Closed(hlast.handle) <=> hlast.handle \notin {NULL, INVALID_HANDLE_VALUE})
    /\ \A h \in raw : ~Closed(h)
    /\ hlast.op = "into_raw_handle" => hlast.handle \in raw

\* C30 witness: a socket handle was duplicated, the original was handed
\* out by into_raw_handle, the duplicate was dropped and closed with
\* closesocket, and the last drop was of a null handle
C30_Witness ==
    /\ hlast = Op("drop", NULL)
    /\ opened = <<"socket", "socket">>
    /\ raw = {1}
    /\ closes = SetToBag({Close("closesocket", 2)})

====
